---- MODULE Spec2Model ----
(***************************************************************************)
(* A model of lc_regression/utils.py: the date normaliser convert_to_jd,   *)
(* the CSP reference lookups get_csp_t0 / get_csp_ebv with the filter      *)
(* filter_has_csp_data, and the domain-restricted calc_model_chisq.        *)
(*                                                                         *)
(* Dates are counted in half days, so that the MJD offset 2400000.5 is the *)
(* integer 4800001; every date of the model is a multiple of half a day,   *)
(* where the floating-point additions of the code are exact.               *)
(***************************************************************************)
EXTENDS Integers, Sequences, FiniteSets, TLC

VARIABLES
    date,        \* convert_to_jd: the array of time stamps passed in
    jd,          \* convert_to_jd: the outcome of the call (NoCall before it)
    data,        \* calc_model_chisq: the caller's observation table
    result,      \* calc_model_chisq: the sncosmo fit result
    model,       \* calc_model_chisq: the sncosmo model (its bounds)
    selected,    \* calc_model_chisq: its local table after the selection
    chisq_ret,   \* calc_model_chisq: the outcome of the call
    dr3_table3,  \* dr3.load_table(3): rows with SN and T(Bmax)
    dr1_table1,  \* dr1.load_table(1): rows with SN and E(B-V)
    csp_call,    \* the CSP function last called and its argument
    csp_ret      \* the outcome of that call

vars == <<date, jd, data, result, model, selected, chisq_ret,
          dr3_table3, dr1_table1, csp_call, csp_ret>>

jd_vars == <<date, jd>>
chisq_vars == <<data, result, model, selected, chisq_ret>>
csp_vars == <<dr3_table3, dr1_table1, csp_call, csp_ret>>

(***************************************************************************)
(* Outcomes of a call                                                      *)
(***************************************************************************)
NoCall == [kind |-> "none"]
Return(v) == [kind |-> "return", value |-> v]
Raise(e) == [kind |-> "raise", exc |-> e]

NoCspCall == [fn |-> "none", obj_id |-> ""]

(***************************************************************************)
(* Bounds                                                                  *)
(***************************************************************************)
MaxDates == 2
Spread == 1
MaxRows == 2
MaxVParams == 2
MaxCatalog == 2

(***************************************************************************)
(* convert_to_jd                                                           *)
(***************************************************************************)
\* 53000 days and 2400000.5 days, in half days
snoopy_offset == 2 * 53000
mjd_offset == 2 * 2400000 + 1

\* astropy's Time(date, format=date_format) read back with format 'jd'
TimeJdValue(d, date_format) ==
    IF date_format = "mjd" THEN d + mjd_offset ELSE d

\* a mutant: the Snoopy test made non-strict
convert_scalar_le(d) ==
    IF d <= snoopy_offset
    THEN TimeJdValue(d + snoopy_offset, "mjd")
    ELSE IF d > mjd_offset
         THEN TimeJdValue(d, "jd")
         ELSE TimeJdValue(d, "mjd")

\* a mutant: the JD branch forgets to set date_format
convert_scalar_nojd(d) ==
    IF d < snoopy_offset
    THEN TimeJdValue(d + snoopy_offset, "mjd")
    ELSE IF d > mjd_offset
         THEN TimeJdValue(d, "mjd")
         ELSE TimeJdValue(d, "mjd")

\* a mutant: the JD test made non-strict
convert_scalar_ge(d) ==
    IF d < snoopy_offset
    THEN TimeJdValue(d + snoopy_offset, "mjd")
    ELSE IF d >= mjd_offset
         THEN TimeJdValue(d, "jd")
         ELSE TimeJdValue(d, "mjd")

\* the body of convert_to_jd, for one element
convert_scalar(d) ==
    IF d < snoopy_offset
    THEN TimeJdValue(d + snoopy_offset, "mjd")
    ELSE IF d > mjd_offset
         THEN TimeJdValue(d, "jd")
         ELSE TimeJdValue(d, "mjd")

\* np.vectorize without otypes: a size-0 argument raises ValueError before
\* the body is called; otherwise the body is applied to each element
convert_to_jd(dates) ==
    IF Len(dates) = 0
    THEN Raise("ValueError")
    ELSE Return([i \in DOMAIN dates |-> convert_scalar(dates[i])])

\* snoopy_date = 500 of the test, in half days
SnoopyExample == 2 * 500
Pivots == {0 - snoopy_offset, 0, SnoopyExample, snoopy_offset, mjd_offset,
           snoopy_offset + mjd_offset}
DateValues == {p + d : p \in Pivots, d \in (0 - Spread)..Spread}

SeqsUpTo(S, n) == UNION {[1..k -> S] : k \in 0..n}

InitJD ==
    /\ date \in SeqsUpTo(DateValues, MaxDates)
    /\ jd = NoCall
    /\ data = <<>> /\ result = [vparam_names |-> <<>>]
    /\ model = [mintime |-> 0, maxtime |-> 0, minwave |-> 0, maxwave |-> 0]
    /\ selected = <<>> /\ chisq_ret = NoCall
    /\ dr3_table3 = <<>> /\ dr1_table1 = <<>>
    /\ csp_call = NoCspCall /\ csp_ret = NoCall

ConvertToJd ==
    /\ jd' = convert_to_jd(date)
    /\ date' = date
    /\ UNCHANGED <<chisq_vars, csp_vars>>

NextJD == ConvertToJd

SpecJD == InitJD /\ [][NextJD]_vars

(***************************************************************************)
(* Claims about convert_to_jd (checked under SpecJD)                       *)
(***************************************************************************)

\* C1: every element of the returned array is x + 53000 + 2400000.5 when
\* x < 53000, x itself when x > 2400000.5, and x + 2400000.5 otherwise
\* (so also at x = 53000 and at x = 2400000.5), each element on its own.
C1_PiecewiseConversion ==
    jd.kind = "return" =>
        /\ DOMAIN jd.value = DOMAIN date
        /\ \A i \in DOMAIN date :
              LET x == date[i] IN
              /\ x < 2 * 53000 => jd.value[i] = x + 2 * 53000 + 4800001
              /\ x > 4800001 => jd.value[i] = x
              /\ (x >= 2 * 53000 /\ x <= 4800001) => jd.value[i] = x + 4800001

\* C1 witness: a returned array mixing the two boundary values
C1_Witness ==
    /\ jd.kind = "return"
    /\ Len(date) = 2
    /\ date[1] = 2 * 53000 /\ jd.value[1] = 2 * 53000 + 4800001
    /\ date[2] = 4800001 /\ jd.value[2] = 4800001 + 4800001

\* C2: for 0 <= s < 53000 the Snoopy, MJD and JD forms of one instant all
\* convert to s + 53000 + 2400000.5.
C2_ThreeConventionsAgree ==
    jd.kind = "return" =>
        \A i \in DOMAIN date :
            LET s == date[i]
                expected == s + 2 * 53000 + 4800001
            IN  (0 <= s /\ s < 2 * 53000) =>
                    /\ jd.value[i] = expected
                    /\ convert_to_jd(<<s + 2 * 53000>>).value[1] = expected
                    /\ convert_to_jd(<<s + 2 * 53000 + 4800001>>).value[1] = expected

\* C2 witness: the test's instant (500, 53500, 2453500.5) and s = 0
C2_Witness ==
    /\ jd.kind = "return"
    /\ Len(date) = 2
    /\ date[1] = 2 * 500 /\ jd.value[1] = 2 * 2453500 + 1
    /\ date[2] = 0 /\ jd.value[2] = 2 * 2453000 + 1

\* C8: for x >= 2400000.5, converting the result of convert_to_jd(x) again
\* leaves it unchanged.
C8_StableOnceJD ==
    jd.kind = "return" =>
        \A i \in DOMAIN date :
            date[i] >= 4800001 =>
                convert_to_jd(jd.value).value[i] = jd.value[i]

\* C8 witness: a converted array holding 2400000.5 itself and a JD above it
C8_Witness ==
    /\ jd.kind = "return"
    /\ Len(date) = 2
    /\ date[1] = 4800001 /\ jd.value[1] = 2 * 4800001
    /\ date[2] > 4800001 /\ jd.value[2] = date[2]

(***************************************************************************)
(* calc_model_chisq                                                        *)
(***************************************************************************)
\* sncosmo.get_bandpass(b).minwave() / .maxwave() of the registered bands
Bands == {"u", "g", "H"}
BandMinWave(b) == CASE b = "u" -> 3 [] b = "g" -> 4 [] OTHER -> 15
BandMaxWave(b) == CASE b = "u" -> 4 [] b = "g" -> 6 [] OTHER -> 18

\* model.bandflux(band, time, zp, zpsys), the model's prediction for a row
ModelFlux(row) == row.time + BandMinWave(row.band)

\* the rows of an sncosmo input table
Times == 0..3
Photometry == {<<5, 1>>, <<8, 2>>}
Rows == {[time |-> t, band |-> b, flux |-> f[1], fluxerr |-> f[2]] :
            t \in Times, b \in Bands, f \in Photometry}

\* the models: their time range and wavelength support
Models == {[mintime |-> 1, maxtime |-> 2, minwave |-> 4, maxwave |-> 6],
           [mintime |-> 1, maxtime |-> 1, minwave |-> 3, maxwave |-> 6],
           [mintime |-> 0, maxtime |-> 2, minwave |-> 4, maxwave |-> 18]}

\* the fit results: result.vparam_names
ParamNames == <<"t0", "x0", "x1", "c", "z">>
Results == {[vparam_names |-> SubSeq(ParamNames, 1, k)] :
               k \in 0..MaxVParams}

RECURSIVE SumSeq(_)
SumSeq(s) == IF s = <<>> THEN 0 ELSE Head(s) + SumSeq(Tail(s))

\* chisq(data, error, model): sum(((data - model) / error) ** 2).  The
\* errors of the model are 1 or 2, and the sum is kept times 4, the common
\* denominator of the squared terms, so that it stays an integer.
chisq(d, error, m) ==
    SumSeq([i \in DOMAIN d |->
               LET t == (d[i] - m[i]) * (2 \div error[i]) IN t * t])

\* sncosmo.chisq(data, model): the chi-squared of the table's fluxes and
\* errors against the model's prediction for each row
sncosmo_chisq(rows) ==
    chisq([i \in DOMAIN rows |-> rows[i].flux],
          [i \in DOMAIN rows |-> rows[i].fluxerr],
          [i \in DOMAIN rows |-> ModelFlux(rows[i])])

\* a mutant: the upper time bound made strict
RowMask_strict(d, m) ==
    [i \in DOMAIN d |->
        /\ d[i].time >= m.mintime
        /\ d[i].time < m.maxtime
        /\ BandMinWave(d[i].band) >= m.minwave
        /\ BandMaxWave(d[i].band) <= m.maxwave]

\* the boolean mask of the selection, row by row
RowMask(d, m) ==
    [i \in DOMAIN d |->
        /\ d[i].time >= m.mintime
        /\ d[i].time <= m.maxtime
        /\ BandMinWave(d[i].band) >= m.minwave
        /\ BandMaxWave(d[i].band) <= m.maxwave]

\* table[mask]: the rows whose mask is set, in their order
RECURSIVE BoolIndex(_, _)
BoolIndex(d, mask) ==
    IF d = <<>> THEN <<>>
    ELSE LET rest == BoolIndex(Tail(d), Tail(mask)) IN
         IF Head(mask) THEN <<Head(d)>> \o rest ELSE rest

\* the filtered working copy of lines 152-162
FilteredCopy(d, m) == BoolIndex(d, RowMask(d, m))

\* a mutant: no check for an empty selection
calc_model_chisq_nocheck(d, r, m) ==
    LET kept == FilteredCopy(d, m) IN
    Return(<<sncosmo_chisq(kept), Len(kept) - Len(r.vparam_names)>>)

\* a mutant: the chi-squared summed over the unfiltered table
calc_model_chisq_allrows(d, r, m) ==
    LET kept == FilteredCopy(d, m) IN
    IF Len(kept) = 0
    THEN Raise("ValueError")
    ELSE Return(<<sncosmo_chisq(d), Len(kept) - Len(r.vparam_names)>>)

\* a mutant: the degrees of freedom counted on the unfiltered table
calc_model_chisq_alldof(d, r, m) ==
    LET kept == FilteredCopy(d, m) IN
    IF Len(kept) = 0
    THEN Raise("ValueError")
    ELSE Return(<<sncosmo_chisq(kept), Len(d) - Len(r.vparam_names)>>)

\* what calc_model_chisq(data, result, model) returns or raises
calc_model_chisq(d, r, m) ==
    LET kept == FilteredCopy(d, m) IN
    IF Len(kept) = 0
    THEN Raise("ValueError")
    ELSE Return(<<sncosmo_chisq(kept), Len(kept) - Len(r.vparam_names)>>)

InitChisq ==
    /\ data \in SeqsUpTo(Rows, MaxRows)
    /\ result \in Results
    /\ model \in Models
    /\ selected = <<>> /\ chisq_ret = NoCall
    /\ date = <<>> /\ jd = NoCall
    /\ dr3_table3 = <<>> /\ dr1_table1 = <<>>
    /\ csp_call = NoCspCall /\ csp_ret = NoCall

\* a mutant: the selection applied to the caller's table in place
CalcModelChisq_inplace ==
    /\ selected' = FilteredCopy(data, model)
    /\ chisq_ret' = calc_model_chisq(data, result, model)
    /\ data' = FilteredCopy(data, model)
    /\ result' = result
    /\ model' = model
    /\ UNCHANGED <<jd_vars, csp_vars>>

\* a call of calc_model_chisq: the table is deep-copied and the local name
\* rebound to the selection, so the caller's objects stay as they are
CalcModelChisq ==
    /\ selected' = FilteredCopy(data, model)
    /\ chisq_ret' = calc_model_chisq(data, result, model)
    /\ data' = data
    /\ result' = result
    /\ model' = model
    /\ UNCHANGED <<jd_vars, csp_vars>>

NextChisq == CalcModelChisq

SpecChisq == InitChisq /\ [][NextChisq]_vars

(***************************************************************************)
(* Claims about calc_model_chisq (checked under SpecChisq)                 *)
(***************************************************************************)

\* a row lies in the model's valid time / wavelength domain
InModelDomain(row) ==
    /\ model.mintime <= row.time /\ row.time <= model.maxtime
    /\ BandMinWave(row.band) >= model.minwave
    /\ BandMaxWave(row.band) <= model.maxwave

Called == chisq_ret.kind # "none"
NoRowInDomain == \A i \in DOMAIN data : ~InModelDomain(data[i])

\* C3 as stated: when no row of the table lies in the model's domain the
\* call fails with a DomainError and returns no (chisq, dof) pair.
C3_RaisesDomainError ==
    (Called /\ NoRowInDomain) =>
        (chisq_ret.kind = "raise" /\ chisq_ret.exc = "DomainError")

\* C3 amended: when no row of the table lies in the model's domain the call
\* fails with a ValueError and returns no (chisq, dof) pair.
C3_RaisesValueError ==
    (Called /\ NoRowInDomain) => chisq_ret = Raise("ValueError")

\* C3 witness: a call on a table of two rows whose times both lie outside
\* the model's time range, which raised
C3_Witness ==
    /\ chisq_ret.kind = "raise"
    /\ Len(data) = 2
    /\ \A i \in DOMAIN data :
          data[i].time < model.mintime \/ data[i].time > model.maxtime

\* C4: the rows handed to the chi-squared computation are exactly the rows
\* of the table with mintime <= time <= maxtime, minwave(band) >= the
\* model's minwave and maxwave(band) <= the model's maxwave, in their
\* original order, none added or altered.
C4_RetainedRows ==
    Called => selected = SelectSeq(data, InModelDomain)

\* C4 witness: a row at time = maxtime whose band spans exactly the model's
\* wavelength support is retained, and a row before it is dropped
C4_Witness ==
    /\ Called
    /\ Len(data) = 2 /\ Len(selected) = 1
    /\ selected[1] = data[2]
    /\ data[2].time = model.maxtime /\ model.mintime < model.maxtime
    /\ BandMinWave(data[2].band) = model.minwave
    /\ BandMaxWave(data[2].band) = model.maxwave

\* C5: with at least one retained row the call returns, and its second
\* value is the number of retained rows minus the number of varied
\* parameters, also when that is zero or negative.
C5_DegreesOfFreedom ==
    LET N == Len(SelectSeq(data, InModelDomain))
        k == Len(result.vparam_names)
    IN  (Called /\ N >= 1) =>
            (chisq_ret.kind = "return" /\ chisq_ret.value[2] = N - k)

\* C5 witness: one retained row of two, two varied parameters, and -1
\* returned as the degrees of freedom
C5_Witness ==
    /\ chisq_ret.kind = "return"
    /\ Len(data) = 2 /\ Len(selected) = 1
    /\ Len(result.vparam_names) = 2
    /\ chisq_ret.value[2] = 0 - 1

\* the table without the rows at the indices in S
RECURSIVE Without(_, _, _)
Without(d, S, i) ==
    IF i > Len(d) THEN <<>>
    ELSE (IF i \in S THEN <<>> ELSE <<d[i]>>) \o Without(d, S, i + 1)

\* C6: a table T with at least one row in the domain, and T with rows from
\* outside the domain inserted anywhere, give the same chisq and the same
\* degrees of freedom: the outcome for the table equals the outcome for
\* the table without any set of its out-of-domain rows.
C6_FilteringMonotonic ==
    LET outside == {i \in DOMAIN data : ~InModelDomain(data[i])} IN
    (Called /\ ~NoRowInDomain) =>
        \A S \in SUBSET outside :
            calc_model_chisq(Without(data, S, 1), result, model) = chisq_ret

\* C6 witness: a returned call on a table whose first row is outside the
\* domain and whose second row is inside it
C6_Witness ==
    /\ chisq_ret.kind = "return"
    /\ Len(data) = 2
    /\ ~InModelDomain(data[1]) /\ InModelDomain(data[2])
    /\ chisq_ret.value[1] > 0

\* C7: a call, whether it returns or raises, leaves the caller's table,
\* the model and the fit result as they were.
C7_InputsNotMutated ==
    [][Called' => (data' = data /\ model' = model /\ result' = result)]_vars

\* C7 witness: a call that dropped a row of the table it was given, and the
\* table still holds both rows
C7_Witness ==
    /\ Called
    /\ Len(data) = 2 /\ Len(selected) < 2

(***************************************************************************)
(* get_csp_t0, get_csp_ebv, filter_has_csp_data                            *)
(***************************************************************************)
\* the supernovae of the CSP tables, and the identifiers asked for
CatalogSN == {"2004dt", "2009ds", "2005kc"}
ObjIds == CatalogSN \cup {"fake_id"}

\* a cell of a masked column: its mask and, when not masked, its value;
\* T(Bmax) in half days, E(B-V) in thousandths of a magnitude
Masked == [mask |-> TRUE, val |-> 0]
Cell(v) == [mask |-> FALSE, val |-> v]
TBmaxCells == {Masked, Cell(2 * 53698)}
EBVCells == {Masked, Cell(132)}

\* the tables a data release can hold: rows of distinct supernovae
TablesOf(cells) ==
    {t \in SeqsUpTo([SN : CatalogSN, cell : cells], MaxCatalog) :
        \A i, j \in DOMAIN t : t[i].SN = t[j].SN => i = j}

IsUnmasked(row) == ~row.cell.mask

\* table[table['SN'] == obj_id][column][0]
FirstCellOf(table, obj_id) ==
    LET i == CHOOSE i \in DOMAIN table :
                 /\ table[i].SN = obj_id
                 /\ \A j \in 1..(i - 1) : table[j].SN # obj_id
    IN  table[i].cell

\* obj_id in table['SN']
InSNColumn(table, obj_id) == \E i \in DOMAIN table : table[i].SN = obj_id

get_csp_t0(obj_id, table3) ==
    LET params == SelectSeq(table3, IsUnmasked) IN
    IF ~InSNColumn(params, obj_id)
    THEN Raise("NoCSPData")
    ELSE Return(Cell(FirstCellOf(params, obj_id).val + mjd_offset))

get_csp_ebv(obj_id, extinction_table) ==
    IF ~InSNColumn(extinction_table, obj_id)
    THEN Raise("NoCSPData")
    ELSE Return(FirstCellOf(extinction_table, obj_id))

filter_has_csp_data(data_table, table3, table1) ==
    LET obj_id == data_table.meta.obj_id
        t0 == get_csp_t0(obj_id, table3)
        ebv == get_csp_ebv(obj_id, table1)
    IN  IF t0 = Raise("NoCSPData") THEN Return(FALSE)
        ELSE IF ebv = Raise("NoCSPData") THEN Return(FALSE)
        ELSE Return(TRUE)

InitCSP ==
    /\ dr3_table3 \in TablesOf(TBmaxCells)
    /\ dr1_table1 \in TablesOf(EBVCells)
    /\ csp_call = NoCspCall /\ csp_ret = NoCall
    /\ date = <<>> /\ jd = NoCall
    /\ data = <<>> /\ result = [vparam_names |-> <<>>]
    /\ model = [mintime |-> 0, maxtime |-> 0, minwave |-> 0, maxwave |-> 0]
    /\ selected = <<>> /\ chisq_ret = NoCall

GetCspT0 ==
    \E obj_id \in ObjIds :
        /\ csp_call' = [fn |-> "get_csp_t0", obj_id |-> obj_id]
        /\ csp_ret' = get_csp_t0(obj_id, dr3_table3)
        /\ UNCHANGED <<dr3_table3, dr1_table1, jd_vars, chisq_vars>>

GetCspEbv ==
    \E obj_id \in ObjIds :
        /\ csp_call' = [fn |-> "get_csp_ebv", obj_id |-> obj_id]
        /\ csp_ret' = get_csp_ebv(obj_id, dr1_table1)
        /\ UNCHANGED <<dr3_table3, dr1_table1, jd_vars, chisq_vars>>

FilterHasCspData ==
    \E obj_id \in ObjIds :
        /\ csp_call' = [fn |-> "filter_has_csp_data", obj_id |-> obj_id]
        /\ csp_ret' = filter_has_csp_data([meta |-> [obj_id |-> obj_id]],
                                          dr3_table3, dr1_table1)
        /\ UNCHANGED <<dr3_table3, dr1_table1, jd_vars, chisq_vars>>

NextCSP == GetCspT0 \/ GetCspEbv \/ FilterHasCspData

SpecCSP == InitCSP /\ [][NextCSP]_vars

(***************************************************************************)
(* Claims about the CSP lookups (checked under SpecCSP)                    *)
(***************************************************************************)

\* the table publishes a value for the identifier: a row of that
\* supernova whose value is not masked
Published(table, obj_id) ==
    \E i \in DOMAIN table : table[i].SN = obj_id /\ ~table[i].cell.mask

\* C9: get_csp_t0 and get_csp_ebv each raise NoCSPData when the identifier
\* is absent from the table or its value there is masked, and never return
\* a masked value.
C9_LookupRaisesNoCSPData ==
    /\ (csp_call.fn = "get_csp_t0"
            /\ ~Published(dr3_table3, csp_call.obj_id)) =>
           csp_ret = Raise("NoCSPData")
    /\ (csp_call.fn = "get_csp_ebv"
            /\ ~Published(dr1_table1, csp_call.obj_id)) =>
           csp_ret = Raise("NoCSPData")

\* C10: filter_has_csp_data returns True exactly when both a t0 and an
\* E(B-V) are published for the identifier, False otherwise, and never
\* raises NoCSPData.
C10_FilterIffBothPublished ==
    csp_call.fn = "filter_has_csp_data" =>
        /\ csp_ret.kind = "return"
        /\ csp_ret.value = (Published(dr3_table3, csp_call.obj_id)
                                /\ Published(dr1_table1, csp_call.obj_id))

====
